---- MODULE Spec2Model ----
(***************************************************************************)
(* Model of geojsonbldg.py: winding normalisation, ear clipping,           *)
(* extrusion of a footprint into a solid, and the merge of the per-feature *)
(* solids into one indexed mesh.                                           *)
(*                                                                         *)
(* Coordinates are integers (the code's floats on a lattice), points are   *)
(* <<x, z>>, vertices are <<x, y, z>>.  Index values stored in triangles   *)
(* and in the live list are 0-based as in the code; a sequence s is read   *)
(* at a 0-based index i as s[i + 1].                                       *)
(***************************************************************************)
EXTENDS Integers, Sequences, FiniteSets, TLC

\* ---------------------------------------------------------------- bounds
GridMax == 2
MaxPts == 4
MaxFeatures == 3

\* ------------------------------------------------------- program constants
DefaultHeight == 10
MetersPerLevel == 3
meters_per_lat == 111320

VARIABLES
    \* one footprint through extrude_footprint, step by step
    points_xz, height, pc, pts, indices, roof_tris, vertices, triangles,
    \* one property map through _building_height_meters
    props, est,
    \* geojson_to_extruded_mesh
    origin, feature, nfeat, all_vertices, all_triangles, vertex_offset, merged, run

tri_vars == <<points_xz, height, pc, pts, indices, roof_tris, vertices, triangles>>
height_vars == <<props, est>>
asm_vars == <<origin, feature, nfeat, all_vertices, all_triangles, vertex_offset, merged, run>>
vars == <<points_xz, height, pc, pts, indices, roof_tris, vertices, triangles,
          props, est,
          origin, feature, nfeat, all_vertices, all_triangles, vertex_offset, merged, run>>

\* ------------------------------------------------------------ list helpers
Reverse(s) == [i \in 1..Len(s) |-> s[Len(s) + 1 - i]]

Range(s) == {s[i] : i \in 1..Len(s)}

RemoveAt(s, k) == [i \in 1..(Len(s) - 1) |-> IF i < k THEN s[i] ELSE s[i + 1]]

RECURSIVE SumTo(_, _)
SumTo(f, n) == IF n = 0 THEN 0 ELSE f[n] + SumTo(f, n - 1)

Abs(x) == IF x < 0 THEN -x ELSE x

\* ------------------------------------------------------------- ensure_ccw
\* the accumulator of ensure_ccw: sum over i of (x2 - x1) * (z2 + z1)
shoelace(points) ==
    LET n == Len(points)
        term(i) == LET p == points[i]
                       q == points[(i % n) + 1]
                   IN (q[1] - p[1]) * (q[2] + p[2])
    IN SumTo([i \in 1..n |-> term(i)], n)

ensure_ccw_keep(points) == points

ensure_ccw(points) ==
    IF shoelace(points) > 0 THEN Reverse(points) ELSE points

\* ---------------------------------------------------- triangulate_polygon
area(a, b, c) == (b[1] - a[1]) * (c[2] - a[2]) - (b[2] - a[2]) * (c[1] - a[1])

is_point_in_triangle_lax(p, a, b, c) ==
    LET b1 == area(p, a, b) <= 0
        b2 == area(p, b, c) <= 0
        b3 == area(p, c, a) <= 0
    IN (b1 = b2) /\ (b2 = b3)

is_point_in_triangle(p, a, b, c) ==
    LET b1 == area(p, a, b) < 0
        b2 == area(p, b, c) < 0
        b3 == area(p, c, a) < 0
    IN (b1 = b2) /\ (b2 = b3)

\* the candidate at position i (0-based) of the live list: indices[i - 1] wraps
\* to the last entry for i = 0, indices[(i + 1) % len] wraps to the first
prev_of(live, i) == IF i = 0 THEN live[Len(live)] ELSE live[i]
curr_of(live, i) == live[i + 1]
next_of(live, i) == live[((i + 1) % Len(live)) + 1]

\* the inner for-loop over 'other': no other live point is in the triangle
ear_clear(points, live, i) ==
    LET pi == prev_of(live, i)
        ci == curr_of(live, i)
        ni == next_of(live, i)
    IN \A k \in 1..Len(live) :
          live[k] \in {pi, ci, ni}
          \/ ~is_point_in_triangle(points[live[k] + 1], points[pi + 1],
                                   points[ci + 1], points[ni + 1])

candidate_area(points, live, i) ==
    area(points[prev_of(live, i) + 1], points[curr_of(live, i) + 1],
         points[next_of(live, i) + 1])

is_ear(points, live, i) ==
    candidate_area(points, live, i) > 0 /\ ear_clear(points, live, i)

ears(points, live) == {i \in 0..(Len(live) - 1) : is_ear(points, live, i)}

\* the scan takes the first position that passes both tests
first_ear(points, live) ==
    CHOOSE i \in ears(points, live) : \A j \in ears(points, live) : i <= j

clip_keep(live, i) == live

clip_next(live, i) == RemoveAt(live, ((i + 1) % Len(live)) + 1)

\* del indices[i]
clip(live, i) == RemoveAt(live, i + 1)

ear_triangle(live, i) == <<prev_of(live, i), curr_of(live, i), next_of(live, i)>>

RECURSIVE ear_loop(_, _, _)
ear_loop(points, live, tris) ==
    IF Len(live) > 2 /\ ears(points, live) # {}
    THEN LET i == first_ear(points, live)
         IN ear_loop(points, clip(live, i), Append(tris, ear_triangle(live, i)))
    ELSE tris

triangulate_polygon(points) ==
    ear_loop(points, [i \in 1..Len(points) |-> i - 1], <<>>)

\* ------------------------------------------------------ extrude_footprint
\* "Remove duplicate closing point"
drop_closing(points) ==
    IF Len(points) > 2 /\ points[1] = points[Len(points)]
    THEN SubSeq(points, 1, Len(points) - 1)
    ELSE points

ring_vertices(points, h) ==
    [i \in 1..(2 * Len(points)) |->
        IF i <= Len(points)
        THEN <<points[i][1], 0, points[i][2]>>
        ELSE <<points[i - Len(points)][1], h, points[i - Len(points)][2]>>]

roof_triangles(roof, n) ==
    [k \in 1..Len(roof) |-> <<roof[k][1] + n, roof[k][2] + n, roof[k][3] + n>>]

floor_triangles(roof) ==
    [k \in 1..Len(roof) |-> <<roof[k][3], roof[k][2], roof[k][1]>>]

wall_triangles_nowrap(n) ==
    [k \in 1..(2 * n) |->
        LET i == (k - 1) \div 2
            next_i == i + 1
        IN IF k % 2 = 1
           THEN <<i, next_i, next_i + n>>
           ELSE <<i, next_i + n, i + n>>]

wall_triangles_open(n) ==
    [k \in 1..(2 * n) |->
        LET i == (k - 1) \div 2
            next_i == (i + 1) % n
        IN IF k % 2 = 1
           THEN <<i, next_i, next_i + n>>
           ELSE <<i, next_i, i + n>>]

wall_triangles(n) ==
    [k \in 1..(2 * n) |->
        LET i == (k - 1) \div 2
            next_i == (i + 1) % n
        IN IF k % 2 = 1
           THEN <<i, next_i, next_i + n>>
           ELSE <<i, next_i + n, i + n>>]

solid_triangles(roof, n) ==
    roof_triangles(roof, n) \o floor_triangles(roof) \o wall_triangles(n)

extrude_footprint(points, h) ==
    LET open == drop_closing(points)
    IN IF Len(open) < 3
       THEN [vertices |-> <<>>, triangles |-> <<>>]
       ELSE LET ccw == ensure_ccw(open)
            IN [vertices |-> ring_vertices(ccw, h),
                triangles |-> solid_triangles(triangulate_polygon(ccw), Len(ccw))]

\* ------------------------------------------------ _building_height_meters
\* a property value is what float() makes of it: a number, or a parse failure
has_key(map, key) == key \in DOMAIN map

building_height_meters(map) ==
    IF has_key(map, "height") /\ map["height"].parses
    THEN map["height"].val
    ELSE IF has_key(map, "building:levels") /\ map["building:levels"].parses
         THEN map["building:levels"].val * MetersPerLevel
         ELSE DefaultHeight

\* ----------------------------------------------- geojson_to_extruded_mesh
\* coordinates are in thousandths of a degree and projected to whole metres;
\* the origin latitudes used are 0 and 60 degrees, whose cosines are 1 and 1/2
cos_times_2(lat) == IF lat = 0 THEN 2 ELSE 1

meters_per_lon(lat) == (meters_per_lat * cos_times_2(lat)) \div 2

project(coord, org) ==
    <<((coord[1] - org.lon) * meters_per_lon(org.lat)) \div 1000,
      ((coord[2] - org.lat) * meters_per_lat) \div 1000>>

\* "if len(coord) < 2: continue"
usable(coord) == Len(coord) >= 2

footprint_padded(ring, org) ==
    [i \in 1..Len(ring) |->
        project(<<IF Len(ring[i]) >= 1 THEN ring[i][1] ELSE org.lon,
                  IF Len(ring[i]) >= 2 THEN ring[i][2] ELSE org.lat>>, org)]

footprint_of(ring, org) ==
    LET kept == SelectSeq(ring, usable)
    IN [i \in 1..Len(kept) |-> project(kept[i], org)]

\* the three 'continue's before the extrusion
skipped(f, org) ==
    \/ f.type # "Polygon"
    \/ f.rings = <<>>
    \/ Len(footprint_of(f.rings[1], org)) < 3

shift_triangles_late(tris, offset, verts) ==
    [k \in 1..Len(tris) |-> <<tris[k][1] + offset + Len(verts),
                               tris[k][2] + offset + Len(verts),
                               tris[k][3] + offset + Len(verts)>>]

\* a + vertex_offset, b + vertex_offset, c + vertex_offset
shift_triangles(tris, offset, verts) ==
    [k \in 1..Len(tris) |-> <<tris[k][1] + offset, tris[k][2] + offset,
                               tris[k][3] + offset>>]

\* ------------------------------------------------------------------ inputs
Coords == 0..GridMax
Points == Coords \X Coords
OpenRings == UNION {[1..n -> Points] : n \in 0..MaxPts}
\* a ring as given, or with its first point repeated at the end
InputRings == OpenRings \cup {Append(r, r[1]) : r \in OpenRings \ {<<>>}}
Heights == {0, 5}

MaxPropValue == 5
PropValues == {[parses |-> FALSE, val |-> 0]}
              \cup {[parses |-> TRUE, val |-> v] : v \in (-1)..MaxPropValue}
PropKeys == {"height", "building:levels"}
PropMaps == UNION {[ks -> PropValues] : ks \in SUBSET PropKeys}

Origins == {[lat |-> 0, lon |-> 0], [lat |-> 60000, lon |-> 1]}
NoProps == <<>>
Num(v) == [parses |-> TRUE, val |-> v]
Text == [parses |-> FALSE, val |-> 0]
Polygon(ring, map) == [type |-> "Polygon", rings |-> <<ring>>, props |-> map]
SquareRing(o) == <<<<o.lon, o.lat>>, <<o.lon + 1, o.lat>>,
                   <<o.lon + 1, o.lat + 1>>, <<o.lon, o.lat + 1>>>>
Features(o) ==
    LET a == <<o.lon, o.lat>>
        b == <<o.lon + 1, o.lat>>
        c == <<o.lon + 1, o.lat + 1>>
        d == <<o.lon, o.lat + 1>>
        e == <<o.lon + 2, o.lat + 2>>
    IN { Polygon(SquareRing(o), NoProps),
         Polygon(<<a, d, c, b, a>>, [x \in {"height"} |-> Num(5)]),
         Polygon(<<a, e, d, c, b>>, [x \in {"building:levels"} |-> Num(2)]),
         Polygon(<<a, b, a, b>>, NoProps),
         Polygon(<<a, a, a, a>>, [x \in {"height"} |-> Text]),
         Polygon(<<a, <<o.lon + 1>>, c, <<>>, d>>, [x \in {"height"} |-> Num(0)]),
         Polygon(<<a, <<o.lon + 1>>, c, <<>>>>, NoProps),
         Polygon(<<a, b>>, NoProps),
         Polygon(<<a, b, a>>, NoProps),
         [type |-> "Polygon", rings |-> <<>>, props |-> NoProps],
         [type |-> "Point", rings |-> <<SquareRing(o)>>, props |-> NoProps] }

\* ----------------------------------------------------------------- states
TriIdle ==
    /\ points_xz = <<>> /\ height = 0 /\ pc = "idle" /\ pts = <<>>
    /\ indices = <<>> /\ roof_tris = <<>> /\ vertices = <<>> /\ triangles = <<>>

HeightIdle == props = NoProps /\ est = [done |-> FALSE, value |-> 0]

AsmIdle ==
    /\ origin = [lat |-> 0, lon |-> 0]
    /\ feature = [type |-> "none", rings |-> <<>>, props |-> NoProps]
    /\ nfeat = 0 /\ all_vertices = <<>> /\ all_triangles = <<>>
    /\ vertex_offset = 0 /\ merged = <<>> /\ run = "idle"

\* ---------------------------------- extrude_footprint, one step at a time
InitTri ==
    /\ points_xz \in InputRings
    /\ height \in Heights
    /\ pc = "start"
    /\ pts = <<>> /\ indices = <<>> /\ roof_tris = <<>>
    /\ vertices = <<>> /\ triangles = <<>>
    /\ HeightIdle /\ AsmIdle

\* closing point, length test, ensure_ccw, the two rings of vertices, and the
\* set-up of triangulate_polygon
Normalize ==
    /\ pc = "start"
    /\ LET open == drop_closing(points_xz)
       IN IF Len(open) < 3
          THEN /\ pc' = "done"
               /\ UNCHANGED <<pts, indices, vertices>>
          ELSE /\ pts' = ensure_ccw(open)
               /\ indices' = [i \in 1..Len(open) |-> i - 1]
               /\ vertices' = ring_vertices(pts', height)
               /\ pc' = "tri"
    /\ UNCHANGED <<points_xz, height, roof_tris, triangles, height_vars, asm_vars>>

\* a pass of the while loop that finds an ear
EarAccept ==
    /\ pc = "tri"
    /\ Len(indices) > 2
    /\ ears(pts, indices) # {}
    /\ LET i == first_ear(pts, indices)
       IN /\ roof_tris' = Append(roof_tris, ear_triangle(indices, i))
          /\ indices' = clip(indices, i)
    /\ UNCHANGED <<points_xz, height, pc, pts, vertices, triangles, height_vars, asm_vars>>

\* a pass of the while loop that finds none: "if not ear_found: break"
EarStop ==
    /\ pc = "tri"
    /\ Len(indices) > 2
    /\ ears(pts, indices) = {}
    /\ pc' = "roofed"
    /\ UNCHANGED <<points_xz, height, pts, indices, roof_tris, vertices, triangles,
                   height_vars, asm_vars>>

\* the while condition fails
TriReturn ==
    /\ pc = "tri"
    /\ Len(indices) <= 2
    /\ pc' = "roofed"
    /\ UNCHANGED <<points_xz, height, pts, indices, roof_tris, vertices, triangles,
                   height_vars, asm_vars>>

\* roof, floor and walls
Build ==
    /\ pc = "roofed"
    /\ triangles' = solid_triangles(roof_tris, Len(pts))
    /\ pc' = "done"
    /\ UNCHANGED <<points_xz, height, pts, indices, roof_tris, vertices,
                   height_vars, asm_vars>>

NextTri == Normalize \/ EarAccept \/ EarStop \/ TriReturn \/ Build

SpecTri == InitTri /\ [][NextTri]_vars

\* the function runs to its return: no step of it waits on anything
SpecTriFair == SpecTri /\ WF_vars(NextTri)

\* ------------------------------------------------ _building_height_meters
InitHeight ==
    /\ props \in PropMaps
    /\ est = [done |-> FALSE, value |-> 0]
    /\ TriIdle /\ AsmIdle

Estimate ==
    /\ ~est.done
    /\ est' = [done |-> TRUE, value |-> building_height_meters(props)]
    /\ UNCHANGED <<props, tri_vars, asm_vars>>

NextHeight == Estimate

SpecHeight == InitHeight /\ [][NextHeight]_vars

\* ----------------------------------------------- geojson_to_extruded_mesh
Init ==
    /\ origin \in Origins
    /\ feature = [type |-> "none", rings |-> <<>>, props |-> NoProps]
    /\ nfeat = 0
    /\ all_vertices = <<>> /\ all_triangles = <<>> /\ vertex_offset = 0
    /\ merged = <<>>
    /\ run = "loop"
    /\ TriIdle /\ HeightIdle

\* one iteration of the loop over the features
ProcessFeature ==
    /\ run = "loop"
    /\ nfeat < MaxFeatures
    /\ \E f \in Features(origin) :
         /\ feature' = f
         /\ nfeat' = nfeat + 1
         /\ IF skipped(f, origin)
            THEN UNCHANGED <<all_vertices, all_triangles, vertex_offset, merged>>
            ELSE LET fp == footprint_of(f.rings[1], origin)
                     h == building_height_meters(f.props)
                     m == extrude_footprint(fp, h)
                 IN /\ all_vertices' = all_vertices \o m.vertices
                    /\ all_triangles' = all_triangles
                           \o shift_triangles(m.triangles, vertex_offset, m.vertices)
                    /\ vertex_offset' = vertex_offset + Len(m.vertices)
                    /\ merged' = Append(merged, [footprint |-> fp, height |-> h,
                                                 vertices |-> m.vertices,
                                                 triangles |-> m.triangles])
    /\ UNCHANGED <<origin, run, tri_vars, height_vars>>

\* "return all_vertices, all_triangles"
Return ==
    /\ run = "loop"
    /\ run' = "returned"
    /\ UNCHANGED <<origin, feature, nfeat, all_vertices, all_triangles, vertex_offset,
                   merged, tri_vars, height_vars>>

Next == ProcessFeature \/ Return

Spec == Init /\ [][Next]_vars

\* ================================================================== claims
\* ------------------------------------------------------------------ merge
\* number of vertices, and of triangles, of the first k merged local meshes
VerticesBefore(k) == SumTo([j \in 1..k |-> Len(merged[j].vertices)], k)
TrianglesBefore(k) == SumTo([j \in 1..k |-> Len(merged[j].triangles)], k)

\* C1: at the start of every feature vertex_offset is the sum of the vertex
\* counts of the local meshes merged so far, which is the length of the combined
\* vertex buffer; the combined triangle buffer is the local meshes' triangles in
\* order, each index being the local index plus the offset held before that
\* mesh's vertices were counted.
C1_OffsetAndIndices ==
    /\ vertex_offset = VerticesBefore(Len(merged))
    /\ vertex_offset = Len(all_vertices)
    /\ Len(all_triangles) = TrianglesBefore(Len(merged))
    /\ \A k \in 1..Len(merged) :
         \A t \in 1..Len(merged[k].triangles) :
            \A c \in 1..3 :
               all_triangles[TrianglesBefore(k - 1) + t][c]
                  = merged[k].triangles[t][c] + VerticesBefore(k - 1)

\* two 8-vertex/12-triangle solids merged, with a skipped feature among the
\* three processed: 16 vertices, 24 triangles, the second solid's indices 8 up
C1_TwoSolids ==
    /\ nfeat = 3
    /\ Len(merged) = 2
    /\ \A k \in 1..2 : Len(merged[k].vertices) = 8 /\ Len(merged[k].triangles) = 12
    /\ Len(all_vertices) = 16
    /\ Len(all_triangles) = 24
    /\ \A t \in 1..12 : \A c \in 1..3 :
          all_triangles[12 + t][c] = merged[2].triangles[t][c] + 8

TriangleValid(tri, n) ==
    /\ tri[1] # tri[2] /\ tri[2] # tri[3] /\ tri[1] # tri[3]
    /\ \A c \in 1..3 : tri[c] >= 0 /\ tri[c] < n

\* C2: every triangle of the combined mesh, and every triangle of each local
\* mesh extrude_footprint returned, has three pairwise distinct indices, each at
\* least 0 and below the length of the vertex buffer it belongs to.
C2_TrianglesValid ==
    /\ \A k \in 1..Len(all_triangles) :
          TriangleValid(all_triangles[k], Len(all_vertices))
    /\ \A j \in 1..Len(merged) :
          \A t \in 1..Len(merged[j].triangles) :
             TriangleValid(merged[j].triangles[t], Len(merged[j].vertices))

\* two meshes merged, one of them with a partial roof
C2_MergedMeshes ==
    /\ Len(merged) = 2
    /\ Len(merged[1].triangles) = 12
    /\ Len(merged[2].triangles) > 0
    /\ Len(merged[2].triangles) < 4 * Len(merged[2].footprint) - 4

\* the ring of a feature as the claims count it
RingOf(f) == IF f.rings = <<>> THEN <<>> ELSE f.rings[1]
UsablePairs(f) == Cardinality({i \in 1..Len(RingOf(f)) : Len(RingOf(f)[i]) >= 2})
DistinctAfterClosure(f) ==
    LET kept == SelectSeq(RingOf(f), LAMBDA c : Len(c) >= 2)
        pairs == [i \in 1..Len(kept) |-> <<kept[i][1], kept[i][2]>>]
    IN Cardinality(Range(drop_closing(pairs)))

\* C6 as stated: a feature that is not a Polygon, or whose ring has fewer than 3
\* distinct points after removal of the closing point, adds no vertices and no
\* triangles.
C6_DegenerateSkipped ==
    [][(nfeat' = nfeat + 1
        /\ (feature'.type # "Polygon" \/ DistinctAfterClosure(feature') < 3))
       => UNCHANGED <<all_vertices, all_triangles>>]_vars

\* C7: a feature whose ring has fewer than 3 usable coordinate pairs is skipped:
\* it never reaches the extrusion, and the combined vertex buffer, the combined
\* triangle buffer and vertex_offset are unchanged by it.
C7_ShortRingSkipped ==
    [][(nfeat' = nfeat + 1 /\ UsablePairs(feature') < 3)
       => UNCHANGED <<all_vertices, all_triangles, vertex_offset, merged>>]_vars

\* a ring with entries but fewer than 3 usable pairs was processed after a solid
\* was merged, and another solid was merged after it
C7_SkippedBetween ==
    /\ nfeat = 3
    /\ Len(merged) = 2
    /\ feature.type = "Polygon"
    /\ Len(all_vertices) = 16
    /\ \E f \in Features(origin) :
          /\ f.type = "Polygon" /\ Len(RingOf(f)) >= 3 /\ UsablePairs(f) < 3
          /\ skipped(f, origin)

\* ----------------------------------------------------------------- height
\* C8 as stated: the estimated height is strictly positive for every property
\* map.
C8_HeightPositive == est.done => est.value > 0

\* ---------------------------------------------------------------- closure
EdgesOf(tri) == {{tri[1], tri[2]}, {tri[2], tri[3]}, {tri[1], tri[3]}}
TrianglesWith(edge, tris) == {k \in 1..Len(tris) : edge \in EdgesOf(tris[k])}

\* C3: when the roof triangulation did not stop early (n - 2 roof triangles for
\* the n-point normalized footprint), every undirected edge that occurs in a
\* triangle of the extruded mesh occurs in exactly two of its triangles.
C3_ClosedSolid ==
    (pc = "done" /\ Len(pts) >= 3 /\ Len(roof_tris) = Len(pts) - 2)
    => \A k \in 1..Len(triangles) :
          \A e \in EdgesOf(triangles[k]) :
             Cardinality(TrianglesWith(e, triangles)) = 2

\* a clockwise four-point footprint, reversed by the normalizer, fully roofed
C3_FullRoof ==
    /\ pc = "done"
    /\ Len(pts) = 4
    /\ Len(roof_tris) = 2
    /\ pts = Reverse(points_xz)
    /\ Len(triangles) = 12

\* ------------------------------------------------------------ convex input
\* a convex polygon in counter-clockwise order: distinct points, non-zero area,
\* and every vertex on or to the left of every edge
Convex(points) ==
    LET n == Len(points)
    IN /\ n >= 3
       /\ Cardinality(Range(points)) = n
       /\ shoelace(points) < 0
       /\ \A i \in 1..n : \A k \in 1..n :
             area(points[i], points[(i % n) + 1], points[k]) >= 0

TriangleAreas(points, tris) ==
    SumTo([k \in 1..Len(tris) |->
              Abs(area(points[tris[k][1] + 1], points[tris[k][2] + 1],
                       points[tris[k][3] + 1]))], Len(tris))

\* C4: for a convex polygon of n >= 3 points in normalized order the
\* triangulation has exactly n - 2 triangles, and their unsigned areas add up to
\* the unsigned area of the polygon (both taken doubled).
C4_ConvexTriangulation ==
    (pc \in {"roofed", "done"} /\ Convex(pts))
    => /\ Len(roof_tris) = Len(pts) - 2
       /\ TriangleAreas(pts, roof_tris) = Abs(shoelace(pts))

\* a convex quadrilateral that is not a parallelogram, triangulated
C4_ConvexQuad ==
    /\ pc = "roofed"
    /\ Convex(pts)
    /\ Len(pts) = 4
    /\ Len(roof_tris) = 2
    /\ \E i \in 1..4 : area(pts[i], pts[(i % 4) + 1], pts[((i + 1) % 4) + 1])
                        # area(pts[1], pts[2], pts[3])

\* ------------------------------------------------------------ reversed input
\* the sign of a triangle of a mesh seen from above (its x and z coordinates)
Sign(x) == IF x > 0 THEN 1 ELSE IF x < 0 THEN -1 ELSE 0
Winding(verts, tri) ==
    LET xz(i) == <<verts[i + 1][1], verts[i + 1][3]>>
    IN Sign(area(xz(tri[1]), xz(tri[2]), xz(tri[3])))

\* the input is the reverse of a counter-clockwise polygon
ReverseOfCcw ==
    /\ Len(drop_closing(Reverse(points_xz))) >= 3
    /\ shoelace(drop_closing(Reverse(points_xz))) < 0

\* roof triangles come first in a mesh, floor triangles next, then 2n walls
RoofCount(mesh) == (Len(mesh.triangles) - Len(mesh.vertices)) \div 2

\* C5 as stated: the extrusion of the reverse of a counter-clockwise polygon P
\* has roof and floor winding swapped relative to the extrusion of P.
C5_WindingSwapped ==
    (pc = "done" /\ ReverseOfCcw)
    => LET p == extrude_footprint(Reverse(points_xz), height)
       IN \A k \in 1..(2 * Len(roof_tris)) :
             \A j \in 1..(2 * RoofCount(p)) :
                (k <= Len(roof_tris)) = (j <= RoofCount(p))
                => Winding(vertices, triangles[k]) = -Winding(p.vertices, p.triangles[j])

\* C5 amended: the extrusion of the reverse of P has as many roof and floor
\* triangles as the extrusion of P, wound the same way (roof counter-clockwise,
\* floor clockwise), and is the same mesh when P does not repeat its first
\* point at its end.
C5_WindingKept ==
    (pc = "done" /\ ReverseOfCcw)
    => LET p == extrude_footprint(Reverse(points_xz), height)
       IN /\ Len(triangles) = Len(p.triangles)
          /\ Len(vertices) = Len(p.vertices)
          /\ \A k \in 1..(2 * Len(roof_tris)) :
                /\ Winding(vertices, triangles[k]) = Winding(p.vertices, p.triangles[k])
                /\ Winding(vertices, triangles[k])
                      = (IF k <= Len(roof_tris) THEN 1 ELSE -1)
          /\ drop_closing(points_xz) = points_xz
                => vertices = p.vertices /\ triangles = p.triangles

\* the reverse of a counter-clockwise quadrilateral, extruded with a full roof
C5_ReversedQuad ==
    /\ pc = "done"
    /\ ReverseOfCcw
    /\ Len(points_xz) = 4
    /\ pts = Reverse(points_xz)
    /\ Len(roof_tris) = 2

\* ------------------------------------------------------------- termination
\* C9: triangulate_polygon terminates on every polygon: a pass of the outer loop
\* either accepts an ear, emitting one triangle and removing exactly one index
\* from the live list, or finds no ear and stops with the triangles emitted so
\* far, which are at most n - 2.
C9_Terminates ==
    /\ [][(pc = "tri" /\ Len(indices) > 2)
          => \/ /\ pc' = "tri"
                /\ Len(roof_tris') = Len(roof_tris) + 1
                /\ \E k \in 1..Len(indices) : indices' = RemoveAt(indices, k)
             \/ /\ pc' = "roofed"
                /\ ears(pts, indices) = {}
                /\ UNCHANGED <<indices, roof_tris>>]_vars
    /\ [](pc = "roofed" => Len(roof_tris) <= Len(pts) - 2)
    /\ (pc = "tri") ~> (pc = "roofed")

\* a scan found no ear after some were clipped: a partial result
C9_PartialResult ==
    /\ pc = "roofed"
    /\ Len(indices) > 2
    /\ Len(roof_tris) > 0
    /\ Len(roof_tris) < Len(pts) - 2

\* --------------------------------------------------------- containment test
\* the live indices other than those of the candidate at position i
Others(live, i) == Range(live) \ {prev_of(live, i), curr_of(live, i), next_of(live, i)}

StrictlyInside(points, live, i, o) ==
    /\ area(points[o + 1], points[prev_of(live, i) + 1], points[curr_of(live, i) + 1]) > 0
    /\ area(points[o + 1], points[curr_of(live, i) + 1], points[next_of(live, i) + 1]) > 0
    /\ area(points[o + 1], points[next_of(live, i) + 1], points[prev_of(live, i) + 1]) > 0

InsideOrOnBoundary(points, live, i, o) ==
    /\ area(points[o + 1], points[prev_of(live, i) + 1], points[curr_of(live, i) + 1]) >= 0
    /\ area(points[o + 1], points[curr_of(live, i) + 1], points[next_of(live, i) + 1]) >= 0
    /\ area(points[o + 1], points[next_of(live, i) + 1], points[prev_of(live, i) + 1]) >= 0

\* C10 as stated: a candidate of positive area is rejected only if another live
\* point lies strictly inside its triangle.
C10_RejectedOnlyStrictlyInside ==
    (pc = "tri" /\ Len(indices) > 2)
    => \A i \in 0..(Len(indices) - 1) :
          (candidate_area(pts, indices, i) > 0 /\ ~ear_clear(pts, indices, i))
          => \E o \in Others(indices, i) : StrictlyInside(pts, indices, i, o)

\* C10 amended: a candidate of positive area is rejected exactly when another
\* live point lies inside its triangle or on its boundary (on an edge, or on a
\* corner).
C10_RejectedIffInsideOrOnBoundary ==
    (pc = "tri" /\ Len(indices) > 2)
    => \A i \in 0..(Len(indices) - 1) :
          candidate_area(pts, indices, i) > 0
          => (~ear_clear(pts, indices, i)
              <=> \E o \in Others(indices, i) : InsideOrOnBoundary(pts, indices, i, o))

\* a candidate of positive area rejected for a point on its boundary alone
C10_BoundaryPointRejects ==
    /\ pc = "tri"
    /\ Len(indices) > 2
    /\ \E i \in 0..(Len(indices) - 1) :
          /\ candidate_area(pts, indices, i) > 0
          /\ ~ear_clear(pts, indices, i)
          /\ \A o \in Others(indices, i) : ~StrictlyInside(pts, indices, i, o)
          /\ \E o \in Others(indices, i) : pts[o + 1] # pts[prev_of(indices, i) + 1]
                /\ pts[o + 1] # pts[curr_of(indices, i) + 1]
                /\ pts[o + 1] # pts[next_of(indices, i) + 1]
                /\ InsideOrOnBoundary(pts, indices, i, o)

====
